---- MODULE Spec2Model ----
\* A model of todo-cli (main.go): the task store (loadTasks / saveTasks over
\* the tasks file, its ".tmp" sibling and the ".broken.<unix>" backups) and
\* the commands add / list / do / rm / edit / clear that run against it.
\*
\* Strings are sequences of one-character strings, so that strings.Join,
\* strconv.ParseInt and the JSON encoding are computed, not assumed.
\* A file's content is the sequence of JSON tokens it holds; a partially
\* written file holds a proper prefix of that sequence.
EXTENDS Integers, Sequences, FiniteSets, TLC

\* ---------------------------------------------------------------- bounds
MaxTime == 2         \* readings of time.Now() in one run
TicksPerSec == 2     \* clock ticks per second of time.Now().Unix()
MaxFaults == 1       \* I/O errors and crashes the environment may inject

\* ---------------------------------------------------------------- strings
Digits == <<"0", "1", "2", "3", "4", "5", "6", "7", "8", "9">>

IsDigit(c) == \E d \in 1..10 : Digits[d] = c

DigitVal(c) == (CHOOSE d \in 1..10 : Digits[d] = c) - 1

RECURSIVE FormatNat(_)
FormatNat(n) ==
    IF n < 10 THEN <<Digits[n + 1]>>
    ELSE FormatNat(n \div 10) \o <<Digits[(n % 10) + 1]>>

\* strconv.FormatInt(n, 10), as encoding/json writes an int64
FormatInt(n) == IF n < 0 THEN <<"-">> \o FormatNat(-n) ELSE FormatNat(n)

RECURSIVE DigitsVal(_, _)
DigitsVal(s, acc) ==
    IF Len(s) = 0 THEN acc
    ELSE DigitsVal(Tail(s), acc * 10 + DigitVal(s[1]))

AllDigits(s) == Len(s) > 0 /\ \A i \in 1..Len(s) : IsDigit(s[i])

\* strconv.ParseInt(s, 10, 64): optional sign, then one or more digits
ParseInt(s) ==
    LET signed == Len(s) > 0 /\ s[1] \in {"+", "-"}
        body == IF signed THEN Tail(s) ELSE s
    IN  IF AllDigits(body)
        THEN [ok |-> TRUE,
              n |-> IF signed /\ s[1] = "-" THEN 0 - DigitsVal(body, 0)
                    ELSE DigitsVal(body, 0)]
        ELSE [ok |-> FALSE, n |-> 0]

RECURSIVE Join(_)
\* strings.Join(args, " ")
Join(args) ==
    IF Len(args) = 0 THEN <<>>
    ELSE IF Len(args) = 1 THEN args[1]
    ELSE args[1] \o <<" ">> \o Join(Tail(args))

\* ---------------------------------------------------------------- tasks
\* Task: CompletedAt is a *time.Time, <<>> for nil and <<t>> for a set one
Task(id, title, done, created, completed) ==
    [ID |-> id, Title |-> title, Done |-> done, CreatedAt |-> created,
     CompletedAt |-> completed]

\* variant: the id is the number of tasks + 1
nextIDLen(ts) == Len(ts) + 1

\* variant: the largest id itself, without the + 1
nextIDNoIncrement(ts) ==
    LET ids == {ts[i].ID : i \in 1..Len(ts)} \cup {0}
    IN  CHOOSE m \in ids : \A x \in ids : x <= m

\* nextID: max starts at the zero value 0 and rises to the largest ID
nextID(ts) ==
    LET ids == {ts[i].ID : i \in 1..Len(ts)} \cup {0}
    IN  (CHOOSE m \in ids : \A x \in ids : x <= m) + 1

\* variant: the comparison is >= instead of ==
findIndexByIDAtLeast(ts, id) ==
    IF \E i \in 1..Len(ts) : ts[i].ID >= id
    THEN (CHOOSE i \in 1..Len(ts) :
            ts[i].ID >= id /\ \A j \in 1..(i - 1) : ~(ts[j].ID >= id)) - 1
    ELSE -1

\* findIndexByID: the 0-based index of the first task with that ID, or -1
findIndexByID(ts, id) ==
    IF \E i \in 1..Len(ts) : ts[i].ID = id
    THEN (CHOOSE i \in 1..Len(ts) :
            ts[i].ID = id /\ \A j \in 1..(i - 1) : ts[j].ID # id) - 1
    ELSE -1

\* ---------------------------------------------------------------- JSON
Quote(s) == <<"\"">> \o s \o <<"\"">>

IsQuoted(s) == Len(s) >= 2 /\ s[1] = "\"" /\ s[Len(s)] = "\""

Unquote(s) == SubSeq(s, 2, Len(s) - 1)

BoolTok(b) == IF b THEN <<"t", "r", "u", "e">> ELSE <<"f", "a", "l", "s", "e">>

IsBoolTok(s) == s = BoolTok(TRUE) \/ s = BoolTok(FALSE)

\* time.Time.MarshalJSON: a quoted RFC 3339 instant
TimeTok(t) == Quote(<<"T">> \o FormatNat(t))

IsTimeTok(s) ==
    /\ IsQuoted(s)
    /\ Len(s) >= 4
    /\ s[2] = "T"
    /\ AllDigits(SubSeq(s, 3, Len(s) - 1))

\* variant: the instant is read back to the whole second
TimeValSeconds(s) ==
    (DigitsVal(SubSeq(s, 3, Len(s) - 1), 0) \div TicksPerSec) * TicksPerSec

\* time.Time.UnmarshalJSON: the instant the token denotes
TimeVal(s) == DigitsVal(SubSeq(s, 3, Len(s) - 1), 0)

\* a JSON integer: optional minus, no leading zeros
IsJSONInt(s) ==
    LET body == IF Len(s) > 0 /\ s[1] = "-" THEN Tail(s) ELSE s
    IN  AllDigits(body) /\ (Len(body) = 1 \/ body[1] # "0")

Key(name) == Quote(name)

KId == Key(<<"i", "d">>)
KTitle == Key(<<"t", "i", "t", "l", "e">>)
KDone == Key(<<"d", "o", "n", "e">>)
KCreated == Key(<<"c", "r", "e", "a", "t", "e", "d", "_", "a", "t">>)
KCompleted == Key(<<"c", "o", "m", "p", "l", "e", "t", "e", "d", "_", "a", "t">>)

\* the tokens of one task; completed_at is omitted when nil (omitempty)
MarshalTask(t) ==
    << <<"{">>, KId, FormatInt(t.ID), KTitle, Quote(t.Title),
       KDone, BoolTok(t.Done), KCreated, TimeTok(t.CreatedAt) >>
    \o (IF t.CompletedAt = <<>> THEN <<>>
        ELSE <<KCompleted, TimeTok(t.CompletedAt[1])>>)
    \o << <<"}">> >>

RECURSIVE MarshalTasks(_)
MarshalTasks(ts) ==
    IF Len(ts) = 0 THEN <<>> ELSE MarshalTask(ts[1]) \o MarshalTasks(Tail(ts))

\* json.MarshalIndent(ts, "", "  ") of a non-nil Tasks
Marshal(ts) == << <<"[">> >> \o MarshalTasks(ts) \o << <<"]">> >>

ParseFail == [ok |-> FALSE, ts |-> <<>>]

\* one task object at the head of b: [ok, t, rest]
ParseTask(b) ==
    LET bad == [ok |-> FALSE, t |-> Task(0, <<>>, FALSE, 0, <<>>), rest |-> <<>>]
    IN  IF /\ Len(b) >= 10
           /\ b[1] = <<"{">>
           /\ b[2] = KId /\ IsJSONInt(b[3])
           /\ b[4] = KTitle /\ IsQuoted(b[5])
           /\ b[6] = KDone /\ IsBoolTok(b[7])
           /\ b[8] = KCreated /\ IsTimeTok(b[9])
        THEN LET id == ParseInt(b[3]).n
                 title == Unquote(b[5])
                 done == (b[7] = BoolTok(TRUE))
                 created == TimeVal(b[9])
             IN  IF b[10] = <<"}">>
                 THEN [ok |-> TRUE, t |-> Task(id, title, done, created, <<>>),
                       rest |-> SubSeq(b, 11, Len(b))]
                 ELSE IF /\ Len(b) >= 12
                         /\ b[10] = KCompleted /\ IsTimeTok(b[11])
                         /\ b[12] = <<"}">>
                 THEN [ok |-> TRUE,
                       t |-> Task(id, title, done, created, <<TimeVal(b[11])>>),
                       rest |-> SubSeq(b, 13, Len(b))]
                 ELSE bad
        ELSE bad

RECURSIVE ParseTasks(_, _)
\* the array elements after "[", up to the closing "]" that ends the input
ParseTasks(b, acc) ==
    IF Len(b) = 0 THEN ParseFail
    ELSE IF b[1] = <<"]">>
    THEN IF Len(b) = 1 THEN [ok |-> TRUE, ts |-> acc] ELSE ParseFail
    ELSE LET r == ParseTask(b)
         IN  IF r.ok THEN ParseTasks(r.rest, Append(acc, r.t)) ELSE ParseFail

\* json.Unmarshal(b, &ts): null leaves ts nil, an array fills it, anything
\* else (the empty input included) is an error
Unmarshal(b) ==
    IF b = << <<"n", "u", "l", "l">> >> THEN [ok |-> TRUE, ts |-> <<>>]
    ELSE IF Len(b) > 0 /\ b[1] = <<"[">> THEN ParseTasks(Tail(b), <<>>)
    ELSE ParseFail

\* ---------------------------------------------------------------- files
NoFile == [exists |-> FALSE, data |-> <<>>]

File(b) == [exists |-> TRUE, data |-> b]

\* what a write of b that stopped early has left: nothing, or all but the
\* last token (the shortest and the longest of the proper prefixes of b)
ProperPrefixes(b) ==
    IF Len(b) = 0 THEN {} ELSE {<<>>, SubSeq(b, 1, Len(b) - 1)}

\* what a write of b that returned an error has left: a proper prefix, or
\* all of b when it is the close that failed
Prefixes(b) == ProperPrefixes(b) \cup {b}

\* time.Time.Unix(): whole seconds
Unix(t) == t \div TicksPerSec

Seconds == 0..Unix(MaxTime)

\* a write of b at offset 0 of a file that holds c (no O_APPEND): what c
\* has beyond the end of b stays
Overlay(c, b) == b \o SubSeq(c, Len(b) + 1, Len(c))

\* an open file follows its inode: after another process's
\* os.Rename(tmp, path) the file opened as tmp is the tasks file, and the
\* one opened as the tasks file has no name any more
AfterRename(d) == IF d = "tmp" THEN "file" ELSE IF d = "file" THEN "gone" ELSE d

\* after os.Remove(path) the file opened as the tasks file has no name
AfterRemove(d) == IF d = "file" THEN "gone" ELSE d

\* os.WriteFile(name, b, 0o644) on a path that now holds old: the open
\* (O_CREATE|O_TRUNC) fails and nothing changes, or the file is truncated
\* and the write stops anywhere, or all of b is written
WriteFileOutcomes(old, b) == {old} \cup {File(p) : p \in Prefixes(b)}

\* ---------------------------------------------------------------- inputs
\* title arguments: todo add "", todo add a b
TitleArgs == {<< <<>> >>, << <<"a">>, <<"b">> >>}

AddArgs == {<<>>} \cup TitleArgs

IdStrs == {<<"1">>, <<"2">>, <<"3">>, <<"x">>}

DoArgs == {<<>>} \cup {<<s>> : s \in IdStrs}

EditArgs ==
    {<<>>, << <<"1">> >>}
    \cup {<<s>> \o t : s \in IdStrs, t \in TitleArgs}

\* contents json.Unmarshal rejects: a zero-length file, a truncated array
Garbage == {<<>>, << <<"[">> >>}

VARIABLES
    file,       \* the tasks file (tasksFilePath())
    tmp,        \* path + ".tmp"
    backups,    \* path + ".broken.<unix>", by unix second
    now,        \* the clock: the last reading time.Now() gave
    pc,         \* idle between invocations, save_* inside saveTasks, exit
                \* once the command has returned to main
    mem,        \* the ts handed to saveTasks
    cmd,        \* the command of this invocation: os.Args[1] and os.Args[2:]
    loaded,     \* what loadTasks did in this invocation
    out,        \* what the invocation reported: a message or an error
    created,    \* ids of the tasks that adds have persisted since the
                \* store was last empty by construction (first run, clear)
    hist,       \* ids persisted by the adds, in order, while only adds ran
    addOnly,    \* no command other than add has run yet
    faults,     \* I/O errors and crashes injected so far
    fd,         \* where the file that os.WriteFile of saveTasks has open is
                \* linked now: tmp, file, gone (unlinked), none (not open)
    other       \* a second invocation running at the same time: its place
                \* in add and saveTasks, its ts, its descriptor, its report

vars == <<file, tmp, backups, now, pc, mem, cmd, loaded, out, created, hist,
          addOnly, faults, fd, other>>

\* the environment makes a system call fail, or kills the process
Fault == faults < MaxFaults /\ faults' = faults + 1

NoFault == faults' = faults

\* the invocation reads time.Now() n times; every reading is later than
\* the one before
ReadClock(n) == now + n <= MaxTime /\ now' = now + n

Errors == {"usage", "syntax", "notfound", "ioerr"}

\* main: os.Exit(1) iff the command returned an error
ExitStatus(o) == IF o.msg \in Errors THEN 1 ELSE 0

NotLoaded == [st |-> "none", ts |-> <<>>]

NoCmd == [op |-> "none", args |-> <<>>]

NoOut == [msg |-> "none", id |-> 0]

\* loadTasks: the collection it returns and what it leaves in the backups
\* (fault: a system call in it failed; clock: its readings of time.Now())
loadTasks ==
    IF ~file.exists
    THEN {[st |-> "absent", ts |-> <<>>, bk |-> backups, fault |-> FALSE,
           clock |-> 0]}
    ELSE {[st |-> "ioerr", ts |-> <<>>, bk |-> backups, fault |-> TRUE,
           clock |-> 0]} \cup
         (LET u == Unmarshal(file.data)
              sec == Unix(now + 1)
          IN  IF u.ok
              THEN {[st |-> "ok", ts |-> u.ts, bk |-> backups,
                     fault |-> FALSE, clock |-> 0]}
              ELSE IF now + 1 > MaxTime THEN {}
              ELSE {[st |-> "corrupt", ts |-> <<>>,
                     bk |-> [backups EXCEPT ![sec] = w],
                     fault |-> w # File(file.data), clock |-> 1] :
                    w \in WriteFileOutcomes(backups[sec], file.data)})

\* a command calls loadTasks and gets l
Load(l) ==
    /\ loaded' = [st |-> l.st, ts |-> l.ts]
    /\ backups' = l.bk
    /\ IF l.fault THEN Fault ELSE NoFault

\* a command returns before it calls loadTasks
NoLoad ==
    /\ loaded' = NotLoaded
    /\ backups' = backups
    /\ NoFault
    /\ now' = now

NoOther == [pc |-> "idle", mem |-> <<>>, fd |-> "none", out |-> "none"]

InitCommon ==
    /\ fd = "none"
    /\ other = NoOther
    /\ tmp = NoFile
    /\ backups = [s \in Seconds |-> NoFile]
    /\ now = 0
    /\ pc = "idle"
    /\ mem = <<>>
    /\ cmd = NoCmd
    /\ loaded = NotLoaded
    /\ out = NoOut
    /\ created = {}
    /\ hist = <<>>
    /\ addOnly = TRUE
    /\ faults = 0

\* the empty store of a first run
Init == file = NoFile /\ InitCommon

\* stores the program did not write itself: collections with ids of either
\* sign and tasks pending or done, the JSON null, and contents
\* json.Unmarshal rejects
InitCollections ==
    {<<>>,
     <<Task(-2, <<"a">>, FALSE, 0, <<>>)>>,
     <<Task(2, <<"a">>, TRUE, 0, <<0>>)>>}

InitFiles ==
    {NoFile, File(<< <<"n", "u", "l", "l">> >>)}
    \cup {File(Marshal(c)) : c \in InitCollections}
    \cup {File(g) : g \in Garbage}

InitAnyFile == file \in InitFiles /\ InitCommon

\* a command returns without calling saveTasks
Return(msg, id) ==
    /\ pc' = "exit"
    /\ mem' = <<>>
    /\ out' = [msg |-> msg, id |-> id]

\* a command calls saveTasks(ts)
CallSave(ts) ==
    /\ pc' = "save_open"
    /\ mem' = ts
    /\ out' = [msg |-> "running", id |-> 0]

\* a command that is not an add ends the add-only prefix of the run
OtherCommand ==
    /\ addOnly' = FALSE
    /\ hist' = <<>>
    /\ created' = created

\* variant: the new task goes to the front
PrependTask(ts, t) == <<t>> \o ts

\* append(ts, t)
AppendTask(ts, t) == Append(ts, t)

cmdAdd(args) ==
    /\ pc = "idle"
    /\ UNCHANGED <<fd, other>>
    /\ cmd' = [op |-> "add", args |-> args]
    /\ UNCHANGED <<file, tmp, created, hist, addOnly>>
    /\ IF Len(args) = 0
       THEN /\ Return("usage", 0)
            /\ NoLoad
       ELSE \E l \in loadTasks :
            /\ Load(l)
            /\ IF l.st = "ioerr"
               THEN /\ Return("ioerr", 0)
                    /\ ReadClock(l.clock)
               ELSE LET id == nextID(l.ts)
                        t == Task(id, Join(args), FALSE, now + l.clock + 1, <<>>)
                    IN  /\ ReadClock(l.clock + 1)
                        /\ CallSave(AppendTask(l.ts, t))

cmdList ==
    /\ pc = "idle"
    /\ UNCHANGED <<fd, other>>
    /\ cmd' = [op |-> "list", args |-> <<>>]
    /\ UNCHANGED <<file, tmp>>
    /\ OtherCommand
    /\ \E l \in loadTasks :
        /\ Load(l)
        /\ ReadClock(l.clock)
        /\ IF l.st = "ioerr" THEN Return("ioerr", 0)
           ELSE IF Len(l.ts) = 0 THEN Return("No tasks.", 0)
           ELSE Return("listed", 0)

\* variant: no check of ts[i].Done, the task is stamped again
MarkDoneRestamp(ts, i, t) ==
    [save |-> TRUE,
     ts |-> [ts EXCEPT ![i + 1].Done = TRUE, ![i + 1].CompletedAt = <<t>>]]

\* cmdDo once ts[i] is found: a done task is left alone, a pending one is
\* marked done and stamped with the current time
MarkDone(ts, i, t) ==
    IF ts[i + 1].Done
    THEN [save |-> FALSE, ts |-> ts]
    ELSE [save |-> TRUE,
          ts |-> [ts EXCEPT ![i + 1].Done = TRUE, ![i + 1].CompletedAt = <<t>>]]

\* variant: ts[:i], the tasks after ts[i] are dropped with it
RemoveAtTruncate(ts, i) == SubSeq(ts, 1, i)

\* append(ts[:i], ts[i+1:]...)
RemoveAt(ts, i) == SubSeq(ts, 1, i) \o SubSeq(ts, i + 2, Len(ts))

\* variant: ts[i] is replaced by a fresh task with the new title
EditAtFresh(ts, i, title) ==
    [ts EXCEPT ![i + 1] =
        Task(ts[i + 1].ID, title, FALSE, ts[i + 1].CreatedAt, <<>>)]

\* ts[i].Title = newTitle
EditAt(ts, i, title) == [ts EXCEPT ![i + 1].Title = title]

\* the part do, rm and edit share: args[0] parsed, the collection loaded,
\* the task looked up. Each outcome is the error the command returns with
\* ("" for none), the parsed id, the index found and the load l behind it
WithTask(args, minArgs) ==
    LET none == [st |-> "none", ts |-> <<>>, bk |-> backups, fault |-> FALSE,
                 clock |-> 0]
        p == ParseInt(args[1])
    IN  IF Len(args) < minArgs
        THEN {[err |-> "usage", id |-> 0, i |-> -1, l |-> none]}
        ELSE IF ~p.ok
        THEN {[err |-> "syntax", id |-> 0, i |-> -1, l |-> none]}
        ELSE {[err |-> IF l.st = "ioerr" THEN "ioerr"
                       ELSE IF findIndexByID(l.ts, p.n) = -1 THEN "notfound"
                       ELSE "",
               id |-> IF l.st = "ioerr" THEN 0 ELSE p.n,
               i |-> findIndexByID(l.ts, p.n),
               l |-> l] : l \in loadTasks}

cmdDo(args) ==
    /\ pc = "idle"
    /\ UNCHANGED <<fd, other>>
    /\ cmd' = [op |-> "do", args |-> args]
    /\ UNCHANGED <<file, tmp>>
    /\ OtherCommand
    /\ \E r \in WithTask(args, 1) :
        /\ Load(r.l)
        /\ IF r.err # ""
           THEN /\ Return(r.err, r.id)
                /\ ReadClock(r.l.clock)
           ELSE LET d == MarkDone(r.l.ts, r.i, now + r.l.clock + 1)
                IN  IF d.save
                    THEN /\ ReadClock(r.l.clock + 1)
                         /\ CallSave(d.ts)
                    ELSE /\ ReadClock(r.l.clock)
                         /\ Return("Already completed.", 0)

cmdRemove(args) ==
    /\ pc = "idle"
    /\ UNCHANGED <<fd, other>>
    /\ cmd' = [op |-> "rm", args |-> args]
    /\ UNCHANGED <<file, tmp>>
    /\ OtherCommand
    /\ \E r \in WithTask(args, 1) :
        /\ Load(r.l)
        /\ ReadClock(r.l.clock)
        /\ IF r.err # ""
           THEN Return(r.err, r.id)
           ELSE CallSave(RemoveAt(r.l.ts, r.i))

cmdEdit(args) ==
    /\ pc = "idle"
    /\ UNCHANGED <<fd, other>>
    /\ cmd' = [op |-> "edit", args |-> args]
    /\ UNCHANGED <<file, tmp>>
    /\ OtherCommand
    /\ \E r \in WithTask(args, 2) :
        /\ Load(r.l)
        /\ ReadClock(r.l.clock)
        /\ IF r.err # ""
           THEN Return(r.err, r.id)
           ELSE CallSave(EditAt(r.l.ts, r.i, Join(Tail(args))))

\* variant: without the os.IsNotExist exemption, a missing file is an error
cmdClearStrict ==
    /\ pc = "idle"
    /\ cmd' = [op |-> "clear", args |-> <<>>]
    /\ UNCHANGED <<tmp, backups, now>>
    /\ addOnly' = FALSE
    /\ hist' = <<>>
    /\ loaded' = NotLoaded
    /\ fd' = fd
    /\ \/ /\ file.exists
          /\ file' = NoFile
          /\ other' = [other EXCEPT !.fd = AfterRemove(@)]
          /\ created' = {}
          /\ Return("All tasks cleared.", 0)
          /\ NoFault
       \/ /\ ~file.exists
          /\ file' = file
          /\ other' = other
          /\ created' = created
          /\ Return("ioerr", 0)
          /\ NoFault
       \/ /\ file.exists
          /\ file' = file
          /\ other' = other
          /\ created' = created
          /\ Return("ioerr", 0)
          /\ Fault

\* os.Remove(path): a missing file is not an error, any other failure is
cmdClear ==
    /\ pc = "idle"
    /\ cmd' = [op |-> "clear", args |-> <<>>]
    /\ UNCHANGED <<tmp, backups, now>>
    /\ addOnly' = FALSE
    /\ hist' = <<>>
    /\ loaded' = NotLoaded
    /\ fd' = fd
    /\ \/ /\ file' = NoFile
          /\ other' = [other EXCEPT !.fd = AfterRemove(@)]
          /\ created' = {}
          /\ Return("All tasks cleared.", 0)
          /\ NoFault
       \/ /\ file.exists
          /\ file' = file
          /\ other' = other
          /\ created' = created
          /\ Return("ioerr", 0)
          /\ Fault

\* ---------------------------------------------------------------- saveTasks
SaveFrame == UNCHANGED <<backups, now, cmd, loaded>>

GhostFrame == UNCHANGED <<created, hist, addOnly>>

\* what the command prints once saveTasks has returned nil
Report ==
    LET id == IF cmd.op = "add" THEN mem[Len(mem)].ID ELSE ParseInt(cmd.args[1]).n
    IN  [msg |-> CASE cmd.op = "add" -> "Added"
                   [] cmd.op = "do" -> "Marked done"
                   [] cmd.op = "rm" -> "Removed"
                   [] OTHER -> "Updated",
         id |-> id]

\* a write of b through a descriptor whose file is linked at d
WriteAt(d, b) ==
    /\ tmp' = IF d = "tmp" THEN File(Overlay(tmp.data, b)) ELSE tmp
    /\ file' = IF d = "file" THEN File(Overlay(file.data, b)) ELSE file

\* os.WriteFile opens tmp with O_WRONLY|O_CREATE|O_TRUNC
SaveOpen ==
    /\ pc = "save_open"
    /\ file' = file
    /\ other' = other
    /\ SaveFrame
    /\ GhostFrame
    /\ \/ /\ tmp' = File(<<>>)
          /\ fd' = "tmp"
          /\ pc' = "save_write"
          /\ UNCHANGED <<mem, out>>
          /\ NoFault
       \/ /\ tmp' = tmp
          /\ fd' = fd
          /\ Return("ioerr", 0)
          /\ Fault

\* variant: the error of os.WriteFile is dropped and the rename goes ahead
SaveWriteIgnoreErr ==
    /\ pc = "save_write"
    /\ fd' = "none"
    /\ other' = other
    /\ SaveFrame
    /\ GhostFrame
    /\ \/ /\ WriteAt(fd, Marshal(mem))
          /\ pc' = "save_rename"
          /\ UNCHANGED <<mem, out>>
          /\ NoFault
       \/ \E p \in Prefixes(Marshal(mem)) :
          /\ WriteAt(fd, p)
          /\ pc' = "save_rename"
          /\ UNCHANGED <<mem, out>>
          /\ Fault

\* os.WriteFile writes b and closes: on success the file it opened holds
\* all of b from offset 0; on an error of the write or of the close,
\* saveTasks returns it
SaveWrite ==
    /\ pc = "save_write"
    /\ fd' = "none"
    /\ other' = other
    /\ SaveFrame
    /\ GhostFrame
    /\ \/ /\ WriteAt(fd, Marshal(mem))
          /\ pc' = "save_rename"
          /\ UNCHANGED <<mem, out>>
          /\ NoFault
       \/ \E p \in Prefixes(Marshal(mem)) :
          /\ WriteAt(fd, p)
          /\ Return("ioerr", 0)
          /\ Fault

\* os.Rename(tmp, path): fails when nothing is linked at tmp (ENOENT)
SaveRename ==
    /\ pc = "save_rename"
    /\ fd' = fd
    /\ SaveFrame
    /\ IF ~tmp.exists
       THEN /\ UNCHANGED <<file, tmp, other>>
            /\ Return("ioerr", 0)
            /\ GhostFrame
            /\ NoFault
       ELSE \/ /\ file' = tmp
               /\ tmp' = NoFile
               /\ other' = [other EXCEPT !.fd = AfterRename(@)]
               /\ Return(Report.msg, Report.id)
               /\ NoFault
               /\ IF cmd.op = "add"
                  THEN /\ created' = created \cup {Report.id}
                       /\ hist' = IF addOnly THEN Append(hist, Report.id) ELSE hist
                       /\ addOnly' = addOnly
                  ELSE GhostFrame
            \/ /\ UNCHANGED <<file, tmp, other>>
               /\ Return("ioerr", 0)
               /\ GhostFrame
               /\ Fault

\* the process dies inside saveTasks; a write in progress stops anywhere
Crash ==
    /\ pc \in {"save_open", "save_write", "save_rename"}
    /\ Fault
    /\ fd' = "none"
    /\ other' = other
    /\ UNCHANGED <<backups, now>>
    /\ cmd' = NoCmd
    /\ loaded' = NotLoaded
    /\ GhostFrame
    /\ pc' = "idle"
    /\ mem' = <<>>
    /\ out' = NoOut
    /\ IF pc = "save_write"
       THEN \E p \in ProperPrefixes(Marshal(mem)) : WriteAt(fd, p)
       ELSE UNCHANGED <<file, tmp>>

\* main returns or calls os.Exit; the next invocation is a new process
Exit ==
    /\ pc = "exit"
    /\ pc' = "idle"
    /\ cmd' = NoCmd
    /\ loaded' = NotLoaded
    /\ out' = NoOut
    /\ UNCHANGED <<file, tmp, backups, now, mem, created, hist, addOnly,
                   faults, fd, other>>

Next ==
    \/ \E args \in AddArgs : cmdAdd(args)
    \/ cmdList
    \/ \E args \in DoArgs : cmdDo(args)
    \/ \E args \in DoArgs : cmdRemove(args)
    \/ \E args \in EditArgs : cmdEdit(args)
    \/ cmdClear
    \/ SaveOpen
    \/ SaveWrite
    \/ SaveRename
    \/ Crash
    \/ Exit

Spec == Init /\ [][Next]_vars

\* the same program started on any store
SpecAnyFile == InitAnyFile /\ [][Next]_vars

\* ------------------------------------------ a second, concurrent invocation
\* what the first invocation's variables keep while the second one steps
OtherFrame ==
    UNCHANGED <<pc, mem, cmd, loaded, out, created, hist, addOnly>>

OtherArgs == {<< <<"b">> >>}

\* the second invocation returns to its main with msg
OtherReturn(msg) ==
    other' = [pc |-> "exit", mem |-> <<>>, fd |-> "none", out |-> msg]

\* todo add <title> in the second process, up to its call of saveTasks
OtherAdd(args) ==
    /\ other.pc = "idle"
    /\ OtherFrame
    /\ UNCHANGED <<file, tmp, fd>>
    /\ \E l \in loadTasks :
         /\ backups' = l.bk
         /\ IF l.fault THEN Fault ELSE NoFault
         /\ IF l.st = "ioerr"
            THEN /\ OtherReturn("ioerr")
                 /\ ReadClock(l.clock)
            ELSE LET id == nextID(l.ts)
                     t == Task(id, Join(args), FALSE, now + l.clock + 1, <<>>)
                 IN  /\ ReadClock(l.clock + 1)
                     /\ other' = [pc |-> "save_open",
                                  mem |-> AppendTask(l.ts, t),
                                  fd |-> "none", out |-> "running"]

\* os.WriteFile of the second process opens tmp, truncating what is there
OtherOpen ==
    /\ other.pc = "save_open"
    /\ OtherFrame
    /\ UNCHANGED <<file, backups, now, fd>>
    /\ \/ /\ tmp' = File(<<>>)
          /\ other' = [other EXCEPT !.pc = "save_write", !.fd = "tmp"]
          /\ NoFault
       \/ /\ tmp' = tmp
          /\ OtherReturn("ioerr")
          /\ Fault

\* os.WriteFile of the second process writes and closes
OtherWrite ==
    /\ other.pc = "save_write"
    /\ OtherFrame
    /\ UNCHANGED <<backups, now, fd>>
    /\ \/ /\ WriteAt(other.fd, Marshal(other.mem))
          /\ other' = [other EXCEPT !.pc = "save_rename", !.fd = "none"]
          /\ NoFault
       \/ \E p \in Prefixes(Marshal(other.mem)) :
          /\ WriteAt(other.fd, p)
          /\ OtherReturn("ioerr")
          /\ Fault

\* os.Rename(tmp, path) of the second process
OtherRename ==
    /\ other.pc = "save_rename"
    /\ OtherFrame
    /\ UNCHANGED <<backups, now>>
    /\ IF ~tmp.exists
       THEN /\ UNCHANGED <<file, tmp, fd>>
            /\ OtherReturn("ioerr")
            /\ NoFault
       ELSE \/ /\ file' = tmp
               /\ tmp' = NoFile
               /\ fd' = AfterRename(fd)
               /\ OtherReturn("Added")
               /\ NoFault
            \/ /\ UNCHANGED <<file, tmp, fd>>
               /\ OtherReturn("ioerr")
               /\ Fault

\* the second process ends; a later one may start
OtherExit ==
    /\ other.pc = "exit"
    /\ other' = NoOther
    /\ OtherFrame
    /\ UNCHANGED <<file, tmp, backups, now, faults, fd>>

NextConcurrent ==
    \/ Next
    \/ \E args \in OtherArgs : OtherAdd(args)
    \/ OtherOpen
    \/ OtherWrite
    \/ OtherRename
    \/ OtherExit

\* two invocations at a time on the store of a first run
SpecConcurrent == Init /\ [][NextConcurrent]_vars

\* ---------------------------------------------------------------- claims
Saving == pc \in {"save_open", "save_write", "save_rename"}

\* the collection a tasks file f holds, <<>> when there is none to read
PersistedIn(f) == IF f.exists THEN Unmarshal(f.data).ts ELSE <<>>

Persisted == PersistedIn(file)

IdsOf(ts) == {ts[i].ID : i \in 1..Len(ts)}

MaxOf(S) == CHOOSE m \in S : \A x \in S : x <= m

\* C1: the id an add assigns differs from the id of every task created
\* before it, removed ones included.
NoIdReuse ==
    [][(pc = "save_rename" /\ pc' = "exit" /\ out'.msg = "Added")
         => out'.id \notin created]_vars

\* C2: while only add commands have run on the empty store, the ids they
\* assigned are strictly increasing and pairwise distinct: 1, 2, 3, ...
AddIdsIncreasing ==
    addOnly =>
        /\ \A i, j \in 1..Len(hist) : i < j => hist[i] < hist[j]
        /\ \A i \in 1..Len(hist) : hist[i] = i

AddIdsIncreasingWitness == addOnly /\ Len(hist) >= 2

\* C3: from the empty store, the ids in the persisted collection are
\* pairwise distinct in every state.
IdsDistinct ==
    /\ file.exists => Unmarshal(file.data).ok
    /\ \A i, j \in 1..Len(Persisted) :
          i # j => Persisted[i].ID # Persisted[j].ID

\* two tasks persisted, after commands other than add have run as well
IdsDistinctWitness ==
    /\ Len(Persisted) = 2
    /\ ~addOnly
    /\ Persisted[1].Title # Persisted[2].Title
    /\ pc = "idle"

\* C5: do on a task that is already done reports "Already completed.",
\* exits 0, performs no save and leaves the store, completed_at included,
\* as the first do left it.
DoTwiceIdempotent ==
    [][(/\ pc = "idle"
        /\ cmd'.op = "do"
        /\ loaded'.st = "ok"
        /\ \E i \in 1..Len(Persisted) :
              /\ Persisted[i].ID = ParseInt(cmd'.args[1]).n
              /\ Persisted[i].Done
              /\ \A j \in 1..(i - 1) : Persisted[j].ID # Persisted[i].ID)
         => (/\ pc' = "exit"
             /\ out'.msg = "Already completed."
             /\ ExitStatus(out') = 0
             /\ file' = file
             /\ tmp' = tmp)]_vars

DoTwiceIdempotentWitness ==
    /\ pc = "exit"
    /\ cmd.op = "do"
    /\ out.msg = "Already completed."
    /\ \E i \in 1..Len(Persisted) :
          /\ Persisted[i].ID = ParseInt(cmd.args[1]).n
          /\ Persisted[i].Done

\* C6: no task in the persisted collection has an empty title.
NoEmptyTitle == \A i \in 1..Len(Persisted) : Persisted[i].Title # <<>>

\* C7: do, edit or rm with an id no loaded task has fails with the
\* not-found error and exit status 1, performs no save and leaves the
\* tasks file and the temporary file as they were.
NotFoundNoSave ==
    [][(/\ pc = "idle"
        /\ cmd'.op \in {"do", "edit", "rm"}
        /\ loaded'.st \in {"ok", "absent", "corrupt"}
        /\ ParseInt(cmd'.args[1]).n \notin IdsOf(loaded'.ts))
         => (/\ pc' = "exit"
             /\ out'.msg = "notfound"
             /\ ExitStatus(out') = 1
             /\ file' = file
             /\ tmp' = tmp)]_vars

\* edit of an absent id against a store that holds other tasks
NotFoundNoSaveWitness ==
    /\ pc = "exit"
    /\ cmd.op = "edit"
    /\ out.msg = "notfound"
    /\ Len(Persisted) > 0
    /\ Persisted = loaded.ts


CorruptLoadBacksUp ==
    [][(pc = "idle" /\ loaded'.st = "corrupt")
         => (/\ loaded'.ts = <<>>
             /\ out'.msg # "ioerr"
             /\ cmd'.op = "add" => (pc' = "save_open" /\ Len(mem') = 1)
             /\ backups'[Unix(now + 1)] = File(file.data))]_vars

\* C9: at every step inside saveTasks, a crash included, the tasks file
\* keeps its previous content or receives the complete serialization of
\* the new collection, and the rename happens only from a temporary file
\* that holds that complete serialization.
SaveCrashAtomic ==
    [][Saving =>
         \/ file' = file
         \/ /\ pc = "save_rename"
            /\ tmp = File(Marshal(mem))
            /\ file' = File(Marshal(mem))
            /\ Unmarshal(file'.data).ok]_vars

\* in the middle of a save: the temporary file is zero-length while the
\* tasks file still holds the previous, non-empty collection
SaveCrashAtomicWitness ==
    /\ pc = "save_write"
    /\ tmp = File(<<>>)
    /\ file.exists
    /\ Len(Persisted) > 0
    /\ file.data # Marshal(mem)

\* C10: when saveTasks returns, the temporary file exists only if the
\* rename itself failed, and on every failure the tasks file is untouched.
TmpOnlyAfterRenameFailure ==
    [][(Saving /\ pc' = "exit")
         => (/\ tmp'.exists => (pc = "save_rename" /\ out'.msg = "ioerr")
             /\ out'.msg = "ioerr" => file' = file)]_vars

\* the rename of this step puts the collection of the running command
\* in place
Saved(op) == pc = "save_rename" /\ cmd.op = op /\ pc' = "exit" /\ file' # file

EditOnlyTitle ==
    [][Saved("edit") =>
         \E old \in {Persisted} : \E f \in {file'} : \E new \in {PersistedIn(f)} :
            /\ Len(new) = Len(old)
            /\ \E k \in 1..Len(old) :
                 /\ old[k].ID = ParseInt(cmd.args[1]).n
                 /\ new[k].Title = Join(Tail(cmd.args))
                 /\ new[k].ID = old[k].ID
                 /\ new[k].Done = old[k].Done
                 /\ new[k].CreatedAt = old[k].CreatedAt
                 /\ new[k].CompletedAt = old[k].CompletedAt
                 /\ \A j \in 1..Len(old) : j # k => new[j] = old[j]]_vars

\* the edit of a done task has been saved
EditOnlyTitleWitness ==
    /\ pc = "exit"
    /\ cmd.op = "edit"
    /\ out.msg = "Updated"
    /\ \E k \in 1..Len(Persisted) :
         /\ Persisted[k].ID = out.id
         /\ Persisted[k].Done
         /\ Persisted[k].Title # loaded.ts[k].Title

\* C13: a successful add persists the previous collection followed by one
\* new task, which is pending, has no completed_at and carries the id the
\* command reports.
AddAppendsOne ==
    [][Saved("add") =>
         \E old \in {Persisted} : \E f \in {file'} : \E new \in {PersistedIn(f)} :
            /\ Len(new) = Len(old) + 1
            /\ \A j \in 1..Len(old) : new[j] = old[j]
            /\ new[Len(new)].Done = FALSE
            /\ new[Len(new)].CompletedAt = <<>>
            /\ new[Len(new)].Title = Join(cmd.args)
            /\ out'.msg = "Added"
            /\ out'.id = new[Len(new)].ID]_vars

\* the second add has been saved behind the first
AddAppendsOneWitness ==
    /\ pc = "exit"
    /\ cmd.op = "add"
    /\ out.msg = "Added"
    /\ Len(Persisted) = 2
    /\ Persisted[2].ID = out.id
    /\ Persisted[1].CreatedAt < Persisted[2].CreatedAt

\* C14: no step takes a task back to pending: a persisted task that is
\* done is, as long as its id stays in the collection, still done with the
\* same completed_at; done and completed_at of a task change only in the
\* save of a do, from pending to done.
NoBackToPending ==
    [][file' # file =>
         \A old \in {Persisted} : \A f \in {file'} : \A new \in {PersistedIn(f)} :
         \A j \in 1..Len(old) : \A k \in 1..Len(new) :
            new[k].ID = old[j].ID =>
               /\ old[j].Done =>
                    /\ new[k].Done
                    /\ new[k].CompletedAt = old[j].CompletedAt
               /\ (\/ new[k].Done # old[j].Done
                   \/ new[k].CompletedAt # old[j].CompletedAt) =>
                    /\ Saved("do")
                    /\ ~old[j].Done
                    /\ new[k].Done]_vars

\* a done task has gone through the save of an edit with its completion
NoBackToPendingWitness ==
    /\ pc = "exit"
    /\ cmd.op = "edit"
    /\ Saving = FALSE
    /\ \E k \in 1..Len(Persisted) :
         /\ Len(loaded.ts) >= k
         /\ loaded.ts[k].CompletedAt # <<>>
         /\ Persisted[k].Title # loaded.ts[k].Title
         /\ Persisted[k].CompletedAt = loaded.ts[k].CompletedAt

\* C15: unless the removal itself fails, clear succeeds whether or not the
\* tasks file exists and leaves it absent; on an absent file it changes
\* nothing, and the load of the next command returns the empty collection
\* without error.
ClearIdempotent ==
    [][/\ (pc = "idle" /\ cmd'.op = "clear" /\ faults' = faults) =>
            /\ file' = NoFile
            /\ out'.msg = "All tasks cleared."
            /\ ExitStatus(out') = 0
            /\ ~file.exists => (file' = file /\ tmp' = tmp /\ backups' = backups)
       /\ (pc = "idle" /\ ~file.exists /\ loaded'.st # "none") =>
            /\ loaded'.st = "absent"
            /\ loaded'.ts = <<>>
            /\ faults' = faults
            /\ backups' = backups]_vars

\* clear has succeeded and the tasks file is absent
ClearIdempotentWitness ==
    /\ pc = "exit"
    /\ cmd.op = "clear"
    /\ out.msg = "All tasks cleared."
    /\ ExitStatus(out) = 0
    /\ ~file.exists

AnsweredWithoutSave(op, args) ==
    \/ op = "list"
    \/ op = "add" /\ Len(args) = 0
    \/ op \in {"do", "rm"} /\ (Len(args) = 0 \/ ~ParseInt(args[1]).ok)
    \/ op = "edit" /\ (Len(args) < 2 \/ ~ParseInt(args[1]).ok)
    \/ /\ op = "do"
       /\ Len(args) > 0
       /\ ParseInt(args[1]).ok
       /\ \E k \in 1..Len(Persisted) :
            /\ Persisted[k].ID = ParseInt(args[1]).n
            /\ Persisted[k].Done
            /\ \A j \in 1..(k - 1) : Persisted[j].ID # Persisted[k].ID

\* C19: a command saves at most once, and only after its load has
\* succeeded; list, do on a task that is already done and every command
\* rejected for missing or unparseable arguments end without a save and
\* leave the tasks file and the temporary file as they were.
AtMostOneSave ==
    [][/\ (pc = "idle" /\ cmd'.op # "none") =>
            /\ AnsweredWithoutSave(cmd'.op, cmd'.args) =>
                 (pc' = "exit" /\ file' = file /\ tmp' = tmp)
            /\ pc' = "save_open" =>
                 /\ cmd'.op \in {"add", "do", "rm", "edit"}
                 /\ loaded'.st \in {"absent", "ok", "corrupt"}
       /\ pc' = "save_open" => pc = "idle"
       /\ Saving => pc' \in {"save_write", "save_rename", "exit", "idle"}
       /\ (pc = "save_write" => pc' # "save_write")
       /\ (pc = "save_rename" => pc' \notin {"save_write", "save_rename"})
       /\ pc = "exit" => (pc' = "idle" /\ file' = file)
       /\ file' # file => (pc = "save_rename" \/ cmd'.op = "clear")]_vars

\* an edit with an unparseable id has been rejected before any load, the
\* tasks file in place
AtMostOneSaveWitness ==
    /\ pc = "exit"
    /\ cmd.op = "edit"
    /\ out.msg = "syntax"
    /\ loaded = NotLoaded
    /\ file.exists
    /\ Len(Persisted) > 0

\* C17: when no system call fails, every save that runs to its end
\* returns without error and leaves in the tasks file exactly the
\* collection of the process that ended it, so that the last save to
\* finish decides the file.
ConcurrentSavesLastWins ==
    [][faults' = 0 =>
         /\ (pc = "save_rename" /\ pc' = "exit") =>
              /\ out'.msg \notin Errors
              /\ file' = File(Marshal(mem))
         /\ (other.pc = "save_rename" /\ other'.pc = "exit") =>
              /\ other'.out \notin Errors
              /\ file' = File(Marshal(other.mem))]_vars

\* C18: when no system call fails, the tasks file, whenever it exists,
\* holds a complete document that loadTasks parses, also while saves of
\* other processes are in progress.
NoPartialTasksFile ==
    faults = 0 => (file.exists => Unmarshal(file.data).ok)

====
